---------------------------- MODULE Spec2Model ----------------------------
(***************************************************************************)
(* Guessipedia: coordinate parsing, north/east/distance comparison         *)
(* (coordinates.py) and the game loop (main.py).                           *)
(*                                                                         *)
(* Python values are records [t, v, s]: t is the Python type, v the        *)
(* numeric value, s the characters of a str.  A float carries its value in *)
(* tenths of a degree (10.5 is v = 105); every numeral of the inputs has   *)
(* at most one fractional digit, so the tenths are exact.  A str is a      *)
(* sequence of one-character strings.                                      *)
(***************************************************************************)
EXTENDS Integers, Sequences, FiniteSets, TLC

VARIABLES
    op,             \* the coordinates.py function applied ("none" before the call)
    args,           \* its positional arguments, raw (lat, lon) pairs
    ret,            \* what it returned or raised
    pc,             \* main.py: where the game is
    number_of_rounds,
    player_locations,
    points_list,
    player_num,     \* index of the outer loop of play_the_game (1-based)
    round_num,      \* rounds the current player has completed
    page_data,      \* the two articles of the round in progress
    network,        \* how the Wikipedia API calls of the round went
    extracts,       \* the two summaries get_extract came back with
    question,       \* random.randint(1,3) of the round
    user_input,     \* last line read by get_user_input
    round_result,   \* what ask_question_about_* returned
    round_points,   \* what play_one_round returned
    outcome,        \* what play_the_game announced, or how the process ended
    rounds_played   \* per player, the rounds play_one_round has returned from

vars == <<op, args, ret, pc, number_of_rounds, player_locations, points_list,
          player_num, round_num, page_data, extracts, question,
          user_input, round_result, round_points, outcome, network,
          rounds_played>>

gameVars == <<pc, number_of_rounds, player_locations, points_list, player_num,
              round_num, page_data, extracts, question, user_input,
              round_result, round_points, outcome, network, rounds_played>>

callVars == <<op, args, ret>>

-----------------------------------------------------------------------------
(* Python values *)

PyNone == [t |-> "None", v |-> 0, s |-> <<>>]
PyInt(n) == [t |-> "int", v |-> n, s |-> <<>>]
PyNaN == [t |-> "nan", v |-> 0, s |-> <<>>]
\* float inf (sign 1) and -inf (sign -1)
PyInf(sign) == [t |-> "inf", v |-> sign, s |-> <<>>]
PyStr(chars) == [t |-> "str", v |-> 0, s |-> chars]
Raised(exc) == [t |-> exc, v |-> 0, s |-> <<>>]

\* A str is a sequence of characters.  A character outside ASCII, and the
\* vertical tab, is written by its code point: "U+0663".

DigitChars == <<"0", "1", "2", "3", "4", "5", "6", "7", "8", "9">>
IsDigit(c) == \E i \in 1..10 : DigitChars[i] = c
DigitVal(c) == (CHOOSE i \in 1..10 : DigitChars[i] = c) - 1

Abs(n) == IF n < 0 THEN -n ELSE n

\* str() writes no int of more than 4300 digits, the sign not counted
\* (sys.get_int_max_str_digits() of this Python)
MaxStrDigits == 4300

\* the int n has more digits than str() writes
ExceedsMaxStrDigits(n) ==
    LET RECURSIVE CountDigits(_)
        CountDigits(k) == IF k < 10 THEN 1 ELSE 1 + CountDigits(k \div 10)
    IN  CountDigits(Abs(n)) > MaxStrDigits

RECURSIVE DecStr(_)
\* str() of a non-negative int: its digits, ValueError beyond MaxStrDigits
DecStr(n) == IF ExceedsMaxStrDigits(n) THEN Raised("ValueError")
             ELSE IF n < 10 THEN <<DigitChars[n + 1]>>
             ELSE DecStr(n \div 10) \o <<DigitChars[(n % 10) + 1]>>

Last(cs) == cs[Len(cs)]
Front(cs) == SubSeq(cs, 1, Len(cs) - 1)

AllDigits(cs) == \A i \in 1..Len(cs) : IsDigit(cs[i])

RECURSIVE DigitsVal(_)
DigitsVal(cs) == IF cs = <<>> THEN 0
                 ELSE 10 * DigitsVal(SubSeq(cs, 1, Len(cs) - 1)) + DigitVal(cs[Len(cs)])

\* the one element of a singleton set: Value({f(x) : x \in {e}}) is f(e)
\* with e worked out once
Value(S) == CHOOSE v \in S : TRUE

\* a sequence written as a function, worked out once as a tuple
Tuple(f) == <<>> \o f

\* the first and the last place of cs that holds none of chars, 0 when
\* there is none
FirstNotOf(cs, chars) ==
    IF \E i \in 1..Len(cs) : cs[i] \notin chars
    THEN CHOOSE i \in 1..Len(cs) :
            cs[i] \notin chars /\ \A j \in 1..(i - 1) : cs[j] \in chars
    ELSE 0

LastNotOf(cs, chars) ==
    IF \E i \in 1..Len(cs) : cs[i] \notin chars
    THEN CHOOSE i \in 1..Len(cs) :
            cs[i] \notin chars /\ \A j \in (i + 1)..Len(cs) : cs[j] \in chars
    ELSE 0

\* the first place of cs that holds one of chars, 0 when there is none
FirstOf(cs, chars) ==
    IF \E i \in 1..Len(cs) : cs[i] \in chars
    THEN CHOOSE i \in 1..Len(cs) :
            cs[i] \in chars /\ \A j \in 1..(i - 1) : cs[j] \notin chars
    ELSE 0

\* 000120 is 120
StripLeadingZeros(ds) ==
    IF FirstNotOf(ds, {"0"}) = 0 THEN <<"0">>
    ELSE SubSeq(ds, FirstNotOf(ds, {"0"}), Len(ds))

Zeros(n) == Tuple([i \in 1..n |-> "0"])

\* A finite float is kept as the decimal repr() writes for it, the shortest
\* one that float() reads back as the same binary64: the digits s, after "-"
\* when negative, times 10^v, with no zero digit at either end (zero is the
\* one digit "0").  The order of these decimals is the order of the floats.
\* Finite is the decimal of the digits ds times 10^e.
Finite(negative, ds, e) ==
    Value({ IF first = 0
            THEN [t |-> "float", v |-> 0,
                  s |-> (IF negative THEN <<"-">> ELSE <<>>) \o <<"0">>]
            ELSE Value({ [t |-> "float", v |-> e + (Len(ds) - last),
                          s |-> (IF negative THEN <<"-">> ELSE <<>>)
                                \o SubSeq(ds, first, last)]
                         : last \in {LastNotOf(ds, {"0"})} })
            : first \in {FirstNotOf(ds, {"0"})} })

\* the float of a number of tenths: PyFloat(905) is 90.5
PyFloat(tenths) ==
    Value({Finite(tenths < 0, ds, -1) : ds \in {DecStr(Abs(tenths))}})

IsNegative(x) == x.s[1] = "-"
Digits(x) == IF IsNegative(x) THEN Tail(x.s) ELSE x.s
IsZero(x) == Digits(x) = <<"0">>
\* where the decimal point stands: the value is 0.digits times 10^DecPt
DecPt(x) == Len(Digits(x)) + x.v
Negated(x) == Value({Finite(~IsNegative(x), ds, x.v) : ds \in {Digits(x)}})

\* the whole number of tenths of a float
Tenths(x) ==
    LET n == DigitsVal(Digits(x))
        scaled == IF x.v = -1 THEN n ELSE n * 10 * (10 ^ x.v)
    IN  IF IsNegative(x) THEN -scaled ELSE scaled

IsNumber(x) == x.t \in {"float", "inf"}

Sign(x) == IF x.t = "inf" THEN x.v
           ELSE IF IsZero(x) THEN 0
           ELSE IF IsNegative(x) THEN -1 ELSE 1

DigitAt(ds, i) == IF i <= Len(ds) THEN DigitVal(ds[i]) ELSE 0

\* 0.a < 0.b for two sequences of digits
DigitsLess(a, b) ==
    \E i \in 1..(Len(a) + Len(b)) :
        /\ DigitAt(a, i) < DigitAt(b, i)
        /\ \A j \in 1..(i - 1) : DigitAt(a, j) = DigitAt(b, j)

\* |a| < |b| for two numbers other than zero
MagnitudeLess(a, b) ==
    IF a.t = "inf" THEN FALSE
    ELSE IF b.t = "inf" THEN TRUE
    ELSE \/ DecPt(a) < DecPt(b)
         \/ DecPt(a) = DecPt(b) /\ DigitsLess(Digits(a), Digits(b))

\* float comparisons: every comparison with nan is False
FloatLt(a, b) ==
    /\ IsNumber(a)
    /\ IsNumber(b)
    /\ IF Sign(a) # Sign(b) THEN Sign(a) < Sign(b)
       ELSE \/ Sign(a) = 1 /\ MagnitudeLess(a, b)
            \/ Sign(a) = -1 /\ MagnitudeLess(b, a)
FloatGt(a, b) == FloatLt(b, a)
FloatEq(a, b) == IsNumber(a) /\ IsNumber(b) /\ ~FloatLt(a, b) /\ ~FloatLt(b, a)

\* the exponent of repr(): a sign and at least two digits
ExponentRepr(n) ==
    <<"e", IF n < 0 THEN "-" ELSE "+">>
    \o (IF Abs(n) < 10 THEN <<"0">> ELSE <<>>) \o DecStr(Abs(n))

\* the digits ds with the point after the first pt of them
Positional(ds, pt) ==
    IF pt <= 0 THEN <<"0", ".">> \o Zeros(-pt) \o ds
    ELSE IF pt >= Len(ds) THEN ds \o Zeros(pt - Len(ds)) \o <<".", "0">>
    ELSE SubSeq(ds, 1, pt) \o <<".">> \o SubSeq(ds, pt + 1, Len(ds))

\* repr() of a finite float: positional from 0.0001 up to 1e16, with an
\* exponent outside
FloatRepr(x) ==
    (IF IsNegative(x) THEN <<"-">> ELSE <<>>)
    \o Value({ IF IsZero(x) THEN <<"0", ".", "0">>
               ELSE IF DecPt(x) > 16 \/ DecPt(x) <= -4
               THEN <<ds[1]>> \o (IF Len(ds) > 1 THEN <<".">> \o Tail(ds) ELSE <<>>)
                    \o ExponentRepr(DecPt(x) - 1)
               ELSE Positional(ds, DecPt(x))
               : ds \in {Digits(x)} })

\* str(x) as convert_lat_lon_to_float applies it to each component; of an int
\* of more than MaxStrDigits digits it raises ValueError
Str(x) ==
    CASE x.t = "str" -> x.s
      [] x.t = "int" -> IF ExceedsMaxStrDigits(x.v) THEN Raised("ValueError")
                        ELSE (IF x.v < 0 THEN <<"-">> ELSE <<>>) \o DecStr(Abs(x.v))
      [] x.t = "float" -> FloatRepr(x)
      [] x.t = "inf" -> IF x.v < 0 THEN <<"-", "i", "n", "f">> ELSE <<"i", "n", "f">>
      [] x.t = "nan" -> <<"n", "a", "n">>
      [] x.t = "None" -> <<"N", "o", "n", "e">>

\* The decimal digits outside ASCII (category Nd of Unicode 14.0, the tables
\* of this Python), a row for each script from its zero to its nine: float()
\* reads each of them as the ASCII digit
DecimalRuns == <<
    <<"U+0660", "U+0661", "U+0662", "U+0663", "U+0664",
      "U+0665", "U+0666", "U+0667", "U+0668", "U+0669">>,
    <<"U+06F0", "U+06F1", "U+06F2", "U+06F3", "U+06F4",
      "U+06F5", "U+06F6", "U+06F7", "U+06F8", "U+06F9">>,
    <<"U+07C0", "U+07C1", "U+07C2", "U+07C3", "U+07C4",
      "U+07C5", "U+07C6", "U+07C7", "U+07C8", "U+07C9">>,
    <<"U+0966", "U+0967", "U+0968", "U+0969", "U+096A",
      "U+096B", "U+096C", "U+096D", "U+096E", "U+096F">>,
    <<"U+09E6", "U+09E7", "U+09E8", "U+09E9", "U+09EA",
      "U+09EB", "U+09EC", "U+09ED", "U+09EE", "U+09EF">>,
    <<"U+0A66", "U+0A67", "U+0A68", "U+0A69", "U+0A6A",
      "U+0A6B", "U+0A6C", "U+0A6D", "U+0A6E", "U+0A6F">>,
    <<"U+0AE6", "U+0AE7", "U+0AE8", "U+0AE9", "U+0AEA",
      "U+0AEB", "U+0AEC", "U+0AED", "U+0AEE", "U+0AEF">>,
    <<"U+0B66", "U+0B67", "U+0B68", "U+0B69", "U+0B6A",
      "U+0B6B", "U+0B6C", "U+0B6D", "U+0B6E", "U+0B6F">>,
    <<"U+0BE6", "U+0BE7", "U+0BE8", "U+0BE9", "U+0BEA",
      "U+0BEB", "U+0BEC", "U+0BED", "U+0BEE", "U+0BEF">>,
    <<"U+0C66", "U+0C67", "U+0C68", "U+0C69", "U+0C6A",
      "U+0C6B", "U+0C6C", "U+0C6D", "U+0C6E", "U+0C6F">>,
    <<"U+0CE6", "U+0CE7", "U+0CE8", "U+0CE9", "U+0CEA",
      "U+0CEB", "U+0CEC", "U+0CED", "U+0CEE", "U+0CEF">>,
    <<"U+0D66", "U+0D67", "U+0D68", "U+0D69", "U+0D6A",
      "U+0D6B", "U+0D6C", "U+0D6D", "U+0D6E", "U+0D6F">>,
    <<"U+0DE6", "U+0DE7", "U+0DE8", "U+0DE9", "U+0DEA",
      "U+0DEB", "U+0DEC", "U+0DED", "U+0DEE", "U+0DEF">>,
    <<"U+0E50", "U+0E51", "U+0E52", "U+0E53", "U+0E54",
      "U+0E55", "U+0E56", "U+0E57", "U+0E58", "U+0E59">>,
    <<"U+0ED0", "U+0ED1", "U+0ED2", "U+0ED3", "U+0ED4",
      "U+0ED5", "U+0ED6", "U+0ED7", "U+0ED8", "U+0ED9">>,
    <<"U+0F20", "U+0F21", "U+0F22", "U+0F23", "U+0F24",
      "U+0F25", "U+0F26", "U+0F27", "U+0F28", "U+0F29">>,
    <<"U+1040", "U+1041", "U+1042", "U+1043", "U+1044",
      "U+1045", "U+1046", "U+1047", "U+1048", "U+1049">>,
    <<"U+1090", "U+1091", "U+1092", "U+1093", "U+1094",
      "U+1095", "U+1096", "U+1097", "U+1098", "U+1099">>,
    <<"U+17E0", "U+17E1", "U+17E2", "U+17E3", "U+17E4",
      "U+17E5", "U+17E6", "U+17E7", "U+17E8", "U+17E9">>,
    <<"U+1810", "U+1811", "U+1812", "U+1813", "U+1814",
      "U+1815", "U+1816", "U+1817", "U+1818", "U+1819">>,
    <<"U+1946", "U+1947", "U+1948", "U+1949", "U+194A",
      "U+194B", "U+194C", "U+194D", "U+194E", "U+194F">>,
    <<"U+19D0", "U+19D1", "U+19D2", "U+19D3", "U+19D4",
      "U+19D5", "U+19D6", "U+19D7", "U+19D8", "U+19D9">>,
    <<"U+1A80", "U+1A81", "U+1A82", "U+1A83", "U+1A84",
      "U+1A85", "U+1A86", "U+1A87", "U+1A88", "U+1A89">>,
    <<"U+1A90", "U+1A91", "U+1A92", "U+1A93", "U+1A94",
      "U+1A95", "U+1A96", "U+1A97", "U+1A98", "U+1A99">>,
    <<"U+1B50", "U+1B51", "U+1B52", "U+1B53", "U+1B54",
      "U+1B55", "U+1B56", "U+1B57", "U+1B58", "U+1B59">>,
    <<"U+1BB0", "U+1BB1", "U+1BB2", "U+1BB3", "U+1BB4",
      "U+1BB5", "U+1BB6", "U+1BB7", "U+1BB8", "U+1BB9">>,
    <<"U+1C40", "U+1C41", "U+1C42", "U+1C43", "U+1C44",
      "U+1C45", "U+1C46", "U+1C47", "U+1C48", "U+1C49">>,
    <<"U+1C50", "U+1C51", "U+1C52", "U+1C53", "U+1C54",
      "U+1C55", "U+1C56", "U+1C57", "U+1C58", "U+1C59">>,
    <<"U+A620", "U+A621", "U+A622", "U+A623", "U+A624",
      "U+A625", "U+A626", "U+A627", "U+A628", "U+A629">>,
    <<"U+A8D0", "U+A8D1", "U+A8D2", "U+A8D3", "U+A8D4",
      "U+A8D5", "U+A8D6", "U+A8D7", "U+A8D8", "U+A8D9">>,
    <<"U+A900", "U+A901", "U+A902", "U+A903", "U+A904",
      "U+A905", "U+A906", "U+A907", "U+A908", "U+A909">>,
    <<"U+A9D0", "U+A9D1", "U+A9D2", "U+A9D3", "U+A9D4",
      "U+A9D5", "U+A9D6", "U+A9D7", "U+A9D8", "U+A9D9">>,
    <<"U+A9F0", "U+A9F1", "U+A9F2", "U+A9F3", "U+A9F4",
      "U+A9F5", "U+A9F6", "U+A9F7", "U+A9F8", "U+A9F9">>,
    <<"U+AA50", "U+AA51", "U+AA52", "U+AA53", "U+AA54",
      "U+AA55", "U+AA56", "U+AA57", "U+AA58", "U+AA59">>,
    <<"U+ABF0", "U+ABF1", "U+ABF2", "U+ABF3", "U+ABF4",
      "U+ABF5", "U+ABF6", "U+ABF7", "U+ABF8", "U+ABF9">>,
    <<"U+FF10", "U+FF11", "U+FF12", "U+FF13", "U+FF14",
      "U+FF15", "U+FF16", "U+FF17", "U+FF18", "U+FF19">>,
    <<"U+104A0", "U+104A1", "U+104A2", "U+104A3", "U+104A4",
      "U+104A5", "U+104A6", "U+104A7", "U+104A8", "U+104A9">>,
    <<"U+10D30", "U+10D31", "U+10D32", "U+10D33", "U+10D34",
      "U+10D35", "U+10D36", "U+10D37", "U+10D38", "U+10D39">>,
    <<"U+11066", "U+11067", "U+11068", "U+11069", "U+1106A",
      "U+1106B", "U+1106C", "U+1106D", "U+1106E", "U+1106F">>,
    <<"U+110F0", "U+110F1", "U+110F2", "U+110F3", "U+110F4",
      "U+110F5", "U+110F6", "U+110F7", "U+110F8", "U+110F9">>,
    <<"U+11136", "U+11137", "U+11138", "U+11139", "U+1113A",
      "U+1113B", "U+1113C", "U+1113D", "U+1113E", "U+1113F">>,
    <<"U+111D0", "U+111D1", "U+111D2", "U+111D3", "U+111D4",
      "U+111D5", "U+111D6", "U+111D7", "U+111D8", "U+111D9">>,
    <<"U+112F0", "U+112F1", "U+112F2", "U+112F3", "U+112F4",
      "U+112F5", "U+112F6", "U+112F7", "U+112F8", "U+112F9">>,
    <<"U+11450", "U+11451", "U+11452", "U+11453", "U+11454",
      "U+11455", "U+11456", "U+11457", "U+11458", "U+11459">>,
    <<"U+114D0", "U+114D1", "U+114D2", "U+114D3", "U+114D4",
      "U+114D5", "U+114D6", "U+114D7", "U+114D8", "U+114D9">>,
    <<"U+11650", "U+11651", "U+11652", "U+11653", "U+11654",
      "U+11655", "U+11656", "U+11657", "U+11658", "U+11659">>,
    <<"U+116C0", "U+116C1", "U+116C2", "U+116C3", "U+116C4",
      "U+116C5", "U+116C6", "U+116C7", "U+116C8", "U+116C9">>,
    <<"U+11730", "U+11731", "U+11732", "U+11733", "U+11734",
      "U+11735", "U+11736", "U+11737", "U+11738", "U+11739">>,
    <<"U+118E0", "U+118E1", "U+118E2", "U+118E3", "U+118E4",
      "U+118E5", "U+118E6", "U+118E7", "U+118E8", "U+118E9">>,
    <<"U+11950", "U+11951", "U+11952", "U+11953", "U+11954",
      "U+11955", "U+11956", "U+11957", "U+11958", "U+11959">>,
    <<"U+11C50", "U+11C51", "U+11C52", "U+11C53", "U+11C54",
      "U+11C55", "U+11C56", "U+11C57", "U+11C58", "U+11C59">>,
    <<"U+11D50", "U+11D51", "U+11D52", "U+11D53", "U+11D54",
      "U+11D55", "U+11D56", "U+11D57", "U+11D58", "U+11D59">>,
    <<"U+11DA0", "U+11DA1", "U+11DA2", "U+11DA3", "U+11DA4",
      "U+11DA5", "U+11DA6", "U+11DA7", "U+11DA8", "U+11DA9">>,
    <<"U+16A60", "U+16A61", "U+16A62", "U+16A63", "U+16A64",
      "U+16A65", "U+16A66", "U+16A67", "U+16A68", "U+16A69">>,
    <<"U+16AC0", "U+16AC1", "U+16AC2", "U+16AC3", "U+16AC4",
      "U+16AC5", "U+16AC6", "U+16AC7", "U+16AC8", "U+16AC9">>,
    <<"U+16B50", "U+16B51", "U+16B52", "U+16B53", "U+16B54",
      "U+16B55", "U+16B56", "U+16B57", "U+16B58", "U+16B59">>,
    <<"U+1D7CE", "U+1D7CF", "U+1D7D0", "U+1D7D1", "U+1D7D2",
      "U+1D7D3", "U+1D7D4", "U+1D7D5", "U+1D7D6", "U+1D7D7">>,
    <<"U+1D7D8", "U+1D7D9", "U+1D7DA", "U+1D7DB", "U+1D7DC",
      "U+1D7DD", "U+1D7DE", "U+1D7DF", "U+1D7E0", "U+1D7E1">>,
    <<"U+1D7E2", "U+1D7E3", "U+1D7E4", "U+1D7E5", "U+1D7E6",
      "U+1D7E7", "U+1D7E8", "U+1D7E9", "U+1D7EA", "U+1D7EB">>,
    <<"U+1D7EC", "U+1D7ED", "U+1D7EE", "U+1D7EF", "U+1D7F0",
      "U+1D7F1", "U+1D7F2", "U+1D7F3", "U+1D7F4", "U+1D7F5">>,
    <<"U+1D7F6", "U+1D7F7", "U+1D7F8", "U+1D7F9", "U+1D7FA",
      "U+1D7FB", "U+1D7FC", "U+1D7FD", "U+1D7FE", "U+1D7FF">>,
    <<"U+1E140", "U+1E141", "U+1E142", "U+1E143", "U+1E144",
      "U+1E145", "U+1E146", "U+1E147", "U+1E148", "U+1E149">>,
    <<"U+1E2F0", "U+1E2F1", "U+1E2F2", "U+1E2F3", "U+1E2F4",
      "U+1E2F5", "U+1E2F6", "U+1E2F7", "U+1E2F8", "U+1E2F9">>,
    <<"U+1E950", "U+1E951", "U+1E952", "U+1E953", "U+1E954",
      "U+1E955", "U+1E956", "U+1E957", "U+1E958", "U+1E959">>,
    <<"U+1FBF0", "U+1FBF1", "U+1FBF2", "U+1FBF3", "U+1FBF4",
      "U+1FBF5", "U+1FBF6", "U+1FBF7", "U+1FBF8", "U+1FBF9">> >>

DecimalChars ==
    UNION {{DecimalRuns[r][i] : i \in 1..10} : r \in 1..Len(DecimalRuns)}

\* the ASCII digit of each of them
DecimalOf ==
    [c \in DecimalChars |->
        DigitChars[CHOOSE i \in 1..10 :
                      \E r \in 1..Len(DecimalRuns) : DecimalRuns[r][i] = c]]

\* the whitespace outside ASCII: float() reads each of them as a blank
UnicodeSpaces ==
    {"U+0085", "U+00A0", "U+1680", "U+2000", "U+2001", "U+2002", "U+2003",
     "U+2004", "U+2005", "U+2006", "U+2007", "U+2008", "U+2009", "U+200A",
     "U+2028", "U+2029", "U+202F", "U+205F", "U+3000"}

\* the characters of ASCII, which float() leaves as they are (code points
\* below 127; a control character, the quotation mark, the backslash
\* and the grave accent are written by their code points)
AsciiChars ==
    {"U+0000", "U+0001", "U+0002", "U+0003", "U+0004", "U+0005", "U+0006",
     "U+0007", "U+0008", "\t", "\n", "U+000B", "\f", "\r", "U+000E",
     "U+000F", "U+0010", "U+0011", "U+0012", "U+0013", "U+0014", "U+0015",
     "U+0016", "U+0017", "U+0018", "U+0019", "U+001A", "U+001B", "U+001C",
     "U+001D", "U+001E", "U+001F", " ", "!", "U+0022", "#", "$", "%", "&", "'",
     "(", ")", "*", "+", ",", "-", ".", "/", "0", "1", "2", "3", "4", "5",
     "6", "7", "8", "9", ":", ";", "<", "=", ">", "?", "@", "A", "B", "C",
     "D", "E", "F", "G", "H", "I", "J", "K", "L", "M", "N", "O", "P", "Q",
     "R", "S", "T", "U", "V", "W", "X", "Y", "Z", "[", "U+005C", "]", "^", "_",
     "U+0060", "a", "b", "c", "d", "e", "f", "g", "h", "i", "j", "k", "l", "m",
     "n", "o", "p", "q", "r", "s", "t", "u", "v", "w", "x", "y", "z", "{",
     "|", "}", "~"}

\* the blanks of ASCII: space, \t, \n, \v, \f, \r
AsciiSpaces == {" ", "\t", "\n", "U+000B", "\f", "\r"}

\* the characters float() can read
Readable == AsciiChars \cup UnicodeSpaces \cup DecimalChars

\* float() first rewrites the decimal digits and the whitespace of a str
\* that is not ASCII; any other character outside ASCII becomes "?"
ToAscii(c) ==
    IF c \in AsciiChars THEN c
    ELSE IF c \in UnicodeSpaces THEN " "
    ELSE IF c \in DecimalChars THEN DecimalOf[c]
    ELSE "?"

\* the rewriting of a whole text, which ends at the first "?" it writes
TransformToAscii(text) ==
    Value({ Tuple([i \in 1..(IF stop = 0 THEN Len(text) ELSE stop) |-> ToAscii(text[i])])
            : stop \in {FirstNotOf(text, Readable)} })

\* cs without the blanks at its two ends
Strip(cs) ==
    IF FirstNotOf(cs, AsciiSpaces) = 0 THEN <<>>
    ELSE SubSeq(cs, FirstNotOf(cs, AsciiSpaces), LastNotOf(cs, AsciiSpaces))

\* an underscore may stand between two digits only
UnderscoresFit(cs) ==
    \A i \in 1..Len(cs) :
        cs[i] = "_" => /\ i > 1 /\ IsDigit(cs[i - 1])
                       /\ i < Len(cs) /\ IsDigit(cs[i + 1])

NotUnderscore(c) == c # "_"
NotPoint(c) == c # "."

DotAt(cs) == FirstOf(cs, {"."})

\* float() reads no more than 10^9 digits (MAX_DIGITS of the conversion)
MaxDigits == 1000000000

\* the digits after the point
FractionDigits(cs) == IF DotAt(cs) = 0 THEN 0 ELSE Len(cs) - DotAt(cs)

\* the digits float() counts: those before and after the point, without the
\* zeros at the head (of the digits after the point too when there are none
\* but zeros before it)
CountedDigits(cs) ==
    Value({ Value({ IF first = 0 THEN 0 ELSE Len(ds) - first + 1
                    : first \in {FirstNotOf(ds, {"0"})} })
            : ds \in {SelectSeq(cs, NotPoint)} })

\* digits, optional point, digits, with at least one digit; more than 10^9
\* digits counted, or more than 10^9 digits after the point, are refused
IsDecimal(cs) ==
    /\ Len(cs) > 0
    /\ cs # <<".">>
    /\ \A i \in 1..Len(cs) : IsDigit(cs[i]) \/ (cs[i] = "." /\ i = DotAt(cs))
    /\ CountedDigits(cs) <= MaxDigits
    /\ FractionDigits(cs) <= MaxDigits

LowerCase(c) ==
    CASE c = "A" -> "a" [] c = "F" -> "f" [] c = "I" -> "i" [] c = "N" -> "n"
      [] c = "T" -> "t" [] c = "Y" -> "y" [] OTHER -> c

IsWord(cs, word) ==
    /\ Len(cs) = Len(word)
    /\ \A i \in 1..Len(cs) : LowerCase(cs[i]) = word[i]

IsNanWord(cs) == IsWord(cs, <<"n", "a", "n">>)
IsInfWord(cs) == \/ IsWord(cs, <<"i", "n", "f">>)
                 \/ IsWord(cs, <<"i", "n", "f", "i", "n", "i", "t", "y">>)

\* where the exponent starts: the place of the first e or E, 0 without one
ExponentAt(cs) == FirstOf(cs, {"e", "E"})

\* an optional sign and at least one digit
IsExponent(ex) ==
    /\ Len(ex) > 0
    /\ IF ex[1] \in {"+", "-"} THEN Len(ex) > 1 /\ AllDigits(Tail(ex))
       ELSE AllDigits(ex)

\* digits, optional point, digits, then optionally e or E with an exponent
IsFloatLiteral(cs) ==
    Value({ IF e = 0 THEN IsDecimal(cs)
            ELSE /\ IsDecimal(SubSeq(cs, 1, e - 1))
                 /\ Value({IsExponent(ex) : ex \in {SubSeq(cs, e + 1, Len(cs))}})
            : e \in {ExponentAt(cs)} })

\* float() takes an exponent of ten digits or more as this one (MAX_ABS_EXP
\* of the conversion), which is beyond every float whatever the mantissa
HugeExponent == 1100000000
HugeExponentDigits == 9

\* the number an exponent stands for
ExponentValue(ex) ==
    Value({ IF ex[1] = "-" THEN -size ELSE size
            : size \in { Value({ IF Len(digits) > HugeExponentDigits THEN HugeExponent
                                 ELSE DigitsVal(digits)
                                 : digits \in {StripLeadingZeros(
                                                  IF ex[1] \in {"+", "-"}
                                                  THEN Tail(ex) ELSE ex)} }) } })

\* the decimal exponent written after e, 0 when there is none
ExponentOf(cs) ==
    Value({ IF e = 0 THEN 0
            ELSE Value({ExponentValue(ex) : ex \in {SubSeq(cs, e + 1, Len(cs))}})
            : e \in {ExponentAt(cs)} })

\* Whole numbers of any size, in base ten: a sequence of the digits 0..9, the
\* most significant first, <<>> for zero.  (An operator that reads its
\* argument many times first binds it, so that it is worked out once.)

Digits10(ds) == Tuple([i \in 1..Len(ds) |-> DigitVal(ds[i])])
Chars10(n) == Tuple([i \in 1..Len(n) |-> DigitChars[n[i] + 1]])

\* the first place where two sequences of one length differ
FirstDiff(a, b) ==
    CHOOSE i \in 1..Len(a) : a[i] # b[i] /\ \A j \in 1..(i - 1) : a[j] = b[j]

\* a < b for two sequences of digits of one length
SeqLess(x, y) ==
    Value({ IF a = b THEN FALSE ELSE Value({a[i] < b[i] : i \in {FirstDiff(a, b)}})
            : a \in {x}, b \in {y} })

\* a < b for two whole numbers without leading zeros
NatLess(x, y) ==
    Value({ IF Len(a) # Len(b) THEN Len(a) < Len(b) ELSE SeqLess(a, b)
            : a \in {x}, b \in {y} })

\* 2n: a place takes a carry exactly when the digit after it is 5 or more
Double(number) ==
    Value({ (IF Len(n) > 0 /\ n[1] >= 5 THEN <<1>> ELSE <<>>)
            \o [i \in 1..Len(n) |->
                   ((2 * n[i]) % 10) + (IF i < Len(n) /\ n[i + 1] >= 5 THEN 1 ELSE 0)]
            : n \in {number} })

\* 5n, as the half of 10n: a place takes 5 exactly when the digit before it
\* is odd
Times5(number) ==
    Value({ Value({ IF Len(h) > 0 /\ h[1] = 0 THEN Tail(h) ELSE h
                    : h \in { Tuple([i \in 1..(Len(n) + 1) |->
                                  (IF i <= Len(n) THEN n[i] \div 2 ELSE 0)
                                  + (IF i > 1 /\ n[i - 1] % 2 = 1 THEN 5 ELSE 0)]) } })
            : n \in {number} })

RECURSIVE DoubleTimes(_, _)
\* n times 2^k
DoubleTimes(number, times) ==
    Value({ IF k = 0 THEN n
            ELSE IF k = 1 THEN Double(n)
            ELSE Value({DoubleTimes(m, k - k \div 2) : m \in {DoubleTimes(n, k \div 2)}})
            : n \in {number}, k \in {times} })

RECURSIVE Times5Times(_, _)
\* n times 5^k
Times5Times(number, times) ==
    Value({ IF k = 0 THEN n
            ELSE IF k = 1 THEN Times5(n)
            ELSE Value({Times5Times(m, k - k \div 2) : m \in {Times5Times(n, k \div 2)}})
            : n \in {number}, k \in {times} })

\* n + 1, of the width of n unless n is all nines
Succ(number) ==
    Value({ IF \A i \in 1..Len(n) : n[i] = 9 THEN <<1>> \o [i \in 1..Len(n) |-> 0]
            ELSE Value({ Tuple([i \in 1..Len(n) |-> IF i < j THEN n[i]
                                                    ELSE IF i = j THEN n[i] + 1 ELSE 0])
                         : j \in {LastNotOf(n, {9})} })
            : n \in {number} })

\* n - 1 for n > 0, of the width of n
Pred(number) ==
    Value({ Value({ Tuple([i \in 1..Len(n) |-> IF i < j THEN n[i]
                                               ELSE IF i = j THEN n[i] - 1 ELSE 9])
                    : j \in {LastNotOf(n, {0})} })
            : n \in {number} })

\* n without its leading zeros
Trimmed(number) ==
    Value({ Value({ IF first = 0 THEN <<>> ELSE SubSeq(n, first, Len(n))
                    : first \in {FirstNotOf(n, {0})} })
            : n \in {number} })

\* n with zeros before it, to the width w
Padded(number, w) ==
    Value({ [i \in 1..(w - Len(n)) |-> 0] \o n : n \in {number} })

\* A binary64 is q times 2^e with q below 2^53 and e from -1074 to 971; q is
\* 2^52 or more unless e is -1074.
Two52 == <<4, 5, 0, 3, 5, 9, 9, 6, 2, 7, 3, 7, 0, 4, 9, 6>>
Two53 == <<9, 0, 0, 7, 1, 9, 9, 2, 5, 4, 7, 4, 0, 9, 9, 2>>
MinBinaryExp == -1074
MaxBinaryExp == 971

\* a binary exponent that is not above the one of a decimal whose point
\* stands at pt: the decimal is 10^(pt - 1) or more, and log2(10) = 3.321928...
BinaryExpBelow(pt) ==
    Value({ IF e < MinBinaryExp THEN MinBinaryExp ELSE e
            : e \in {((pt - 1) * 3321928) \div 1000000 - 54} })

\* n times 2^k for k >= 0; for k < 0 the whole number n times 5^-k, of which
\* n times 2^k is the decimal with -k more digits after the point
TimesPowerOf2(number, power) ==
    Value({ IF k >= 0 THEN DoubleTimes(n, k) ELSE Times5Times(n, -k)
            : n \in {number}, k \in {power} })

\* the digits before the point of the number n with c digits after it
WholePart(number, after) ==
    Value({ IF Len(n) <= c THEN <<>> ELSE SubSeq(n, 1, Len(n) - c)
            : n \in {number}, c \in {after} })

RECURSIVE Normalised(_, _, _)
\* The number n with c digits after the point is the decimal over 2^e: e is
\* raised until the whole part is below 2^53.
Normalised(number, after, binaryExp) ==
    Value({ IF NatLess(WholePart(n, c), Two53) THEN <<n, c, e>>
            ELSE Value({Normalised(h, c + 1, e + 1) : h \in {Times5(n)}})
            : n \in {number}, c \in {after}, e \in {binaryExp} })

\* round-half-even: the part after the point is above one half, or is one
\* half when the whole part is odd
RoundsUp(number, after) ==
    Value({ IF c = 0 \/ Len(n) < c THEN FALSE
            ELSE Value({ IF first # 5 THEN first > 5
                         ELSE \/ \E i \in (Len(n) - c + 2)..Len(n) : n[i] # 0
                              \/ Len(n) > c /\ n[Len(n) - c] % 2 = 1
                         : first \in {n[Len(n) - c + 1]} })
            : n \in {number}, c \in {after} })

\* the binary64 nearest to the decimal n times 10^e10, as <<q, e>>
Nearest(number, decimalExp) ==
    Value({ Value({ Value({ Value({ IF ~RoundsUp(x[1], x[2]) THEN <<whole, x[3]>>
                                    ELSE IF Succ(whole) = Two53 THEN <<Two52, x[3] + 1>>
                                    ELSE <<Succ(whole), x[3]>>
                                    : whole \in {WholePart(x[1], x[2])} })
                            : x \in { Value({ Normalised(
                                                  m, (IF e10 > 0 THEN 0 ELSE -e10)
                                                     + (IF e0 > 0 THEN e0 ELSE 0), e0)
                                              : m \in {TimesPowerOf2(
                                                          IF e10 > 0
                                                          THEN n \o [i \in 1..e10 |-> 0]
                                                          ELSE n,
                                                          -e0)} }) } })
                    : e0 \in {BinaryExpBelow(Len(n) + e10)} })
            : n \in {number}, e10 \in {decimalExp} })

\* of the two multiples of 10^k around v, the one above is the nearer to v;
\* a tie goes to the one with the even digit
NearerAbove(number, places) ==
    Value({ IF k = 0 THEN FALSE
            ELSE Value({ IF first # 5 THEN first > 5
                         ELSE \/ \E i \in (Len(v) - k + 2)..Len(v) : v[i] # 0
                              \/ v[Len(v) - k] % 2 = 1
                         : first \in {v[Len(v) - k + 1]} })
            : v \in {number}, k \in {places} })

RECURSIVE ShortestFrom(_, _, _, _, _)
\* The decimal of the fewest digits between lo and hi (the two included when
\* closed), and the nearest to v of these: <<digits, k>> for digits times
\* 10^k.  v, lo and hi are of one width and start with a zero.
ShortestFrom(number, below, above, places, closed) ==
    Value({ Value({ Value({ IF ~belowIn /\ ~aboveIn
                            THEN ShortestFrom(v, lo, hi, k - 1, closed)
                            ELSE <<IF aboveIn /\ (~belowIn \/ NearerAbove(v, k))
                                   THEN Succ(prefix) ELSE prefix, k>>
                            : belowIn \in { Value({ IF closed THEN ~SeqLess(d, lo)
                                                    ELSE SeqLess(lo, d)
                                                    : d \in {prefix \o [i \in 1..k |-> 0]} }) },
                              aboveIn \in { Value({ IF closed THEN ~SeqLess(hi, d)
                                                    ELSE SeqLess(d, hi)
                                                    : d \in {Succ(prefix)
                                                             \o [i \in 1..k |-> 0]} }) } })
                    : prefix \in {SubSeq(v, 1, Len(v) - k)} })
            : v \in {number}, lo \in {below}, hi \in {above}, k \in {places} })

\* repr() of the binary64 q times 2^e, q > 0: the shortest decimal that
\* float() reads back as this binary64.  The decimals that do lie within half
\* the gap to the binary64 below and half the gap to the one above, and the
\* gap below 2^52 times 2^e is half the gap above it.  <<digits, k>>
Shortest(mantissa, binaryExp) ==
    Value({ Value({ Value({ Value({ Value({ <<r[1], r[2] + (IF u < 0 THEN u ELSE 0)>>
                                            : r \in {ShortestFrom(
                                                        Padded(v, w), Padded(lo, w),
                                                        Padded(hi, w), w - 1,
                                                        Last(q) % 2 = 0)} })
                                    : w \in {Len(hi) + 1} })
                            : v \in {TimesPowerOf2(Double(twice), u)},
                              lo \in {TimesPowerOf2(Pred(Double(twice)), u)},
                              hi \in {TimesPowerOf2(IF narrow THEN Double(Succ(twice))
                                                     ELSE Succ(Double(twice)), u)} })
                    : twice \in {IF narrow THEN Double(q) ELSE q},
                      u \in {IF narrow THEN e - 2 ELSE e - 1} })
            : narrow \in {mantissa = Two52 /\ binaryExp > MinBinaryExp},
              q \in {mantissa}, e \in {binaryExp} })

\* a decimal of more than 10^309 is beyond the largest binary64, one below
\* 10^-324 is below half of the smallest
OverflowDecPt == 309
UnderflowDecPt == -323

\* a decimal of up to 15 significant digits between 10^-307 and 10^308 is
\* itself the shortest decimal of its binary64 (DBL_DIG)
ExactDigits == 15
ExactMinDecPt == -306
ExactMaxDecPt == 308

\* the binary64 of a decimal x that is not zero, by the way of its q and e
Binary64(decimal, negative) ==
    Value({ Value({ IF b[1] = <<>>
                    THEN [t |-> "float", v |-> 0,
                          s |-> (IF negative THEN <<"-">> ELSE <<>>) \o <<"0">>]
                    ELSE IF b[2] > MaxBinaryExp THEN PyInf(IF negative THEN -1 ELSE 1)
                    ELSE Value({ Value({ Finite(negative, ds, r[2])
                                         : ds \in {Chars10(Trimmed(r[1]))} })
                                 : r \in {Shortest(b[1], b[2])} })
                    : b \in { Value({ Nearest(n, x.v) : n \in {Digits10(Digits(x))} }) } })
            : x \in {decimal} })

\* the float that a decimal x becomes: the binary64 nearest to it, a tie
\* going to the even one; inf beyond the largest binary64, zero below half
\* of the smallest.  The float is kept as the decimal repr() writes it.
Rounded(decimal, negative) ==
    Value({ IF IsZero(x) THEN x
            ELSE IF DecPt(x) > OverflowDecPt THEN PyInf(IF negative THEN -1 ELSE 1)
            ELSE IF DecPt(x) < UnderflowDecPt
                 THEN [t |-> "float", v |-> 0,
                       s |-> (IF negative THEN <<"-">> ELSE <<>>) \o <<"0">>]
            ELSE IF /\ Len(Digits(x)) <= ExactDigits
                    /\ DecPt(x) >= ExactMinDecPt
                    /\ DecPt(x) <= ExactMaxDecPt
                 THEN x
            ELSE Binary64(x, negative)
            : x \in {decimal} })

\* the float of a literal that IsFloatLiteral
LiteralValue(cs, negative) ==
    Value({ Rounded(x, negative)
            : x \in { Value({ Value({ Finite(negative, ds, ExponentOf(cs) - after)
                                      : ds \in {SelectSeq(mantissa, NotPoint)},
                                        after \in {IF DotAt(mantissa) = 0 THEN 0
                                                   ELSE Len(mantissa) - DotAt(mantissa)} })
                              : mantissa \in {IF ExponentAt(cs) = 0 THEN cs
                                              ELSE SubSeq(cs, 1, ExponentAt(cs) - 1)} }) } })

\* float() of a text without blanks around it and without underscores
FloatOfBody(body, negative) ==
    IF IsNanWord(body) THEN PyNaN
    ELSE IF IsInfWord(body) THEN PyInf(IF negative THEN -1 ELSE 1)
    ELSE IF IsFloatLiteral(body) THEN LiteralValue(body, negative)
    ELSE Raised("ValueError")

\* float(text): the text is stripped of the whitespace around it and of the
\* underscores between digits; then an optional sign, and "inf", "infinity"
\* or "nan" in any case or a decimal literal; anything else raises ValueError
float(text) ==
    Value({ IF ~UnderscoresFit(stripped) THEN Raised("ValueError")
            ELSE Value({ IF Len(cs) > 0 /\ cs[1] \in {"+", "-"}
                         THEN Value({FloatOfBody(body, cs[1] = "-")
                                     : body \in {Tail(cs)}})
                         ELSE FloatOfBody(cs, FALSE)
                         : cs \in {SelectSeq(stripped, NotUnderscore)} })
            : stripped \in { Value({Strip(ascii) : ascii \in {TransformToAscii(text)}}) } })

InvalidPos == <<PyNone, PyNone>>

\* a hemisphere rewriting that drops the letter and forgets the sign
StripHemisphere_NoSign(text, minusLetter, plusLetter) ==
    IF Last(text) \in {minusLetter, plusLetter} THEN Front(text) ELSE text

\* the hemisphere rewriting of lines 31-38, on the text of one component
StripHemisphere(text, minusLetter, plusLetter) ==
    LET t1 == IF Last(text) = minusLetter THEN <<"-">> \o Front(text) ELSE text
    IN  IF Last(t1) = plusLetter THEN Front(t1) ELSE t1

\* the exception convert_lat_lon_to_float leaves with, "none" when it
\* returns: str() of line 30 raises ValueError on an int of too many digits,
\* outside the try of lines 39-43; then "lat[-1]" and "lon[-1]" of lines
\* 31-38 raise IndexError on an empty text; nothing catches either
ConvertRaises(pos) ==
    IF \E i \in 1..2 : pos[i].t = "int" /\ ExceedsMaxStrDigits(pos[i].v)
    THEN "ValueError"
    ELSE IF Str(pos[1]) = <<>> \/ Str(pos[2]) = <<>> THEN "IndexError"
    ELSE "none"

convert_lat_lon_to_float(pos) ==
    IF ConvertRaises(pos) # "none" THEN Raised(ConvertRaises(pos))
    ELSE
    Value({ IF pos_latitude.t = "ValueError" \/ pos_longitude.t = "ValueError"
            THEN InvalidPos
            ELSE IF \/ FloatLt(pos_latitude, PyFloat(-900))
                    \/ FloatGt(pos_latitude, PyFloat(900))
                    \/ FloatLt(pos_longitude, PyFloat(-1800))
                    \/ FloatGt(pos_longitude, PyFloat(1800))
                 THEN InvalidPos
                 ELSE <<pos_latitude, pos_longitude>>
            : pos_latitude \in {float(StripHemisphere(Str(pos[1]), "S", "N"))},
              pos_longitude \in {float(StripHemisphere(Str(pos[2]), "W", "E"))} })

\* a comparison that takes the smaller latitude for the northern one
which_is_north_Reversed(pos1, pos2) ==
    IF ConvertRaises(pos1) # "none" THEN Raised(ConvertRaises(pos1))
    ELSE IF ConvertRaises(pos2) # "none" THEN Raised(ConvertRaises(pos2))
    ELSE
    Value({ IF p1[1] = PyNone \/ p2[1] = PyNone \/ p1[2] = PyNone \/ p2[2] = PyNone
            THEN PyNone
            ELSE IF FloatEq(p1[1], p2[1]) THEN PyInt(0)
            ELSE IF FloatLt(p1[1], p2[1]) THEN PyInt(1)
            ELSE PyInt(2)
            : p1 \in {convert_lat_lon_to_float(pos1)},
              p2 \in {convert_lat_lon_to_float(pos2)} })

which_is_north(pos1, pos2) ==
    IF ConvertRaises(pos1) # "none" THEN Raised(ConvertRaises(pos1))
    ELSE IF ConvertRaises(pos2) # "none" THEN Raised(ConvertRaises(pos2))
    ELSE
    Value({ IF p1[1] = PyNone \/ p2[1] = PyNone \/ p1[2] = PyNone \/ p2[2] = PyNone
            THEN PyNone
            ELSE IF FloatEq(p1[1], p2[1]) THEN PyInt(0)
            ELSE IF FloatGt(p1[1], p2[1]) THEN PyInt(1)
            ELSE PyInt(2)
            : p1 \in {convert_lat_lon_to_float(pos1)},
              p2 \in {convert_lat_lon_to_float(pos2)} })

which_is_east(pos1, pos2) ==
    IF ConvertRaises(pos1) # "none" THEN Raised(ConvertRaises(pos1))
    ELSE IF ConvertRaises(pos2) # "none" THEN Raised(ConvertRaises(pos2))
    ELSE
    Value({ IF p1[1] = PyNone \/ p2[1] = PyNone \/ p1[2] = PyNone \/ p2[2] = PyNone
            THEN PyNone
            ELSE IF FloatEq(p1[2], p2[2]) THEN PyInt(0)
            ELSE IF FloatGt(p1[2], p2[2]) THEN PyInt(1)
            ELSE PyInt(2)
            : p1 \in {convert_lat_lon_to_float(pos1)},
              p2 \in {convert_lat_lon_to_float(pos2)} })

-----------------------------------------------------------------------------
(* geopy.distance.geodesic on the WGS-84 ellipsoid.  The library is not    *)
(* part of the repository; it is tabulated, in metres, on the grid of      *)
(* places the distance operations are applied to.                          *)

\* geopy's Point: a component that is None (or zero) becomes 0.0
PointOf(p) == <<IF p[1] = PyNone THEN 0 ELSE Tenths(p[1]),
                IF p[2] = PyNone THEN 0 ELSE Tenths(p[2])>>

Equator == <<0, 0>>
Tropics == <<100, 100>>
West60 == <<600, -600>>
East60 == <<600, 600>>
Turku == <<600, 200>>

GeodesicTable(a, b) ==
    LET ends == {a, b}
    IN  CASE a = b -> 0
          [] ends = {Equator, Tropics} -> 1565109
          [] ends = {Equator, West60} -> 8389655
          [] ends = {Equator, East60} -> 8389655
          [] ends = {Equator, Turku} -> 6875160
          [] ends = {Tropics, West60} -> 7940931
          [] ends = {Tropics, East60} -> 6908614
          [] ends = {Tropics, Turku} -> 5610574
          [] ends = {West60, East60} -> 5726976
          [] ends = {West60, Turku} -> 4184366
          [] ends = {East60, Turku} -> 2197750

\* geodesic(a, b), the length in metres (.kilometers is this over 1000)
geodesic(a, b) == GeodesicTable(PointOf(a), PointOf(b))

\* round() of a length in kilometres: to the nearest whole, halves to even
RoundKm(metres) ==
    LET q == metres \div 1000
        r == metres % 1000
    IN  IF r < 500 THEN q
        ELSE IF r > 500 THEN q + 1
        ELSE IF q % 2 = 0 THEN q ELSE q + 1

\* what compare_distance returns: the int 0, or the tuple (closer, d1, d2);
\* the exception of a conversion passes through it
TieValue == [t |-> "int", closer |-> 0, distance1 |-> 0, distance2 |-> 0]
NoVerdict(exc) == [t |-> exc, closer |-> 0, distance1 |-> 0, distance2 |-> 0]
Verdict(n, d1, d2) == [t |-> "tuple", closer |-> n, distance1 |-> d1, distance2 |-> d2]

\* a comparison that tags the farther location instead of the closer one
compare_distance_Farther(my_location, loc1, loc2) ==
    IF ConvertRaises(my_location) # "none" THEN NoVerdict(ConvertRaises(my_location))
    ELSE IF ConvertRaises(loc1) # "none" THEN NoVerdict(ConvertRaises(loc1))
    ELSE IF ConvertRaises(loc2) # "none" THEN NoVerdict(ConvertRaises(loc2))
    ELSE
    LET player_location == convert_lat_lon_to_float(my_location)
        location_1 == convert_lat_lon_to_float(loc1)
        location_2 == convert_lat_lon_to_float(loc2)
        distance1 == geodesic(player_location, location_1)
        distance2 == geodesic(player_location, location_2)
    IN  IF distance1 = distance2 THEN TieValue
        ELSE IF distance1 > distance2 THEN Verdict(1, distance1, distance2)
        ELSE Verdict(2, distance1, distance2)

compare_distance(my_location, loc1, loc2) ==
    IF ConvertRaises(my_location) # "none" THEN NoVerdict(ConvertRaises(my_location))
    ELSE IF ConvertRaises(loc1) # "none" THEN NoVerdict(ConvertRaises(loc1))
    ELSE IF ConvertRaises(loc2) # "none" THEN NoVerdict(ConvertRaises(loc2))
    ELSE
    LET player_location == convert_lat_lon_to_float(my_location)
        location_1 == convert_lat_lon_to_float(loc1)
        location_2 == convert_lat_lon_to_float(loc2)
        distance1 == geodesic(player_location, location_1)
        distance2 == geodesic(player_location, location_2)
    IN  IF distance1 = distance2 THEN TieValue
        ELSE IF distance1 < distance2 THEN Verdict(1, distance1, distance2)
        ELSE Verdict(2, distance1, distance2)

distance_pos1_pos2(pos1, pos2) ==
    IF ConvertRaises(pos1) # "none" THEN Raised(ConvertRaises(pos1))
    ELSE IF ConvertRaises(pos2) # "none" THEN Raised(ConvertRaises(pos2))
    ELSE
    LET location_1 == convert_lat_lon_to_float(pos1)
        location_2 == convert_lat_lon_to_float(pos2)
        distance == geodesic(location_1, location_2)
    IN  PyInt(RoundKm(distance))

-----------------------------------------------------------------------------
(* The inputs the coordinate functions are applied to.  A component is a   *)
(* Python int, a Python float or a str.                                    *)

Text(cs) == PyStr(cs)

\* magnitudes, in tenths of a degree, around the limits of each axis
LatMagnitudes == {0, 100, 900, 905, 910}
LonMagnitudes == {0, 100, 1800, 1805, 1810}

\* the numerals of a magnitude: "10" and "10.0", "90.5"
NumeralsOf(m) ==
    {DecStr(m \div 10) \o <<".">> \o DecStr(m % 10)}
    \cup (IF m % 10 = 0 THEN {DecStr(m \div 10)} ELSE {})

Signs == {<<>>, <<"-">>}

LatSuffixes == {<<>>, <<"N">>, <<"S">>, <<"E">>}
LonSuffixes == {<<>>, <<"E">>, <<"W">>, <<"N">>}

OddTexts == {<<"n", "a", "n">>, <<"n", "a", "n", "S">>, <<"N", "a", "N">>,
             <<"S">>, <<"N">>, <<"1", "0", "N", "S">>, <<"1", ".", "2", ".", "3">>,
             <<"+", "1", "0">>, <<>>}

\* texts float() reads beyond the plain decimals: infinities, exponents,
\* whitespace, underscores, digits and blanks outside ASCII, more decimals
\* than one, and more digits than a binary64 holds: 90.00000000000000001 is
\* read as 90.0, 89.99999999999999999 as 90.0, 180.00000000000000001 as 180.0
WideTexts == {<<"i", "n", "f">>, <<"-", "i", "n", "f">>,
              <<"I", "n", "f", "i", "n", "i", "t", "y">>,
              <<"1", "e", "1">>, <<"1", "E", "2">>, <<"1", "e", "1", "S">>,
              <<"1", "e", "4", "0", "0">>, <<"5", "e", "-", "1">>,
              <<" ", "1", "0">>, <<"1", "0", " ">>, <<"1", "0", "\n">>,
              <<"1", "0", " ", "S">>, <<" ", "1", "0", "S">>, <<" ", "1", "0", "N">>,
              <<"1", "_", "0">>, <<"1", "_", "0", "W">>, <<"1", "_", "_", "0">>,
              <<"U+0661", "U+0660">>, <<"U+0661", "U+0660", "S">>,
              <<"9", "0", ".", "0", "5">>, <<"9", "0", ".", "0", "5", "N">>,
              <<"8", "9", ".", "9", "5", "S">>, <<"-", "0", ".", "0">>,
              <<"U+0967", "U+0966">>, <<"U+2009", "1", "0">>, <<"1", "0", "U+0085">>,
              <<"9", "0", ".">> \o Zeros(16) \o <<"1">>,
              <<"9", "0", ".">> \o Zeros(16) \o <<"1", "N">>,
              <<"8", "9", ".">> \o [i \in 1..17 |-> "9"] \o <<"S">>,
              <<"1", "8", "0", ".">> \o Zeros(16) \o <<"1">>}

\* Python floats beyond the tenths: inf, -inf, 90.05 and -89.95
WideNumbers == {PyInf(1), PyInf(-1), Finite(FALSE, <<"9", "0", "0", "5">>, -2),
                Finite(TRUE, <<"8", "9", "9", "5">>, -2)}

NumbersOf(mags) ==
    UNION {{PyFloat(m), PyFloat(-m)} \cup
           (IF m % 10 = 0 THEN {PyInt(m \div 10), PyInt(-(m \div 10))} ELSE {}) : m \in mags}

TextsOf(mags, suffixes) ==
    {Text(sg \o n \o sf) : sg \in Signs, n \in UNION {NumeralsOf(m) : m \in mags},
                           sf \in suffixes}

LatInputs == NumbersOf(LatMagnitudes) \cup TextsOf(LatMagnitudes, LatSuffixes)
             \cup {Text(cs) : cs \in OddTexts \cup WideTexts} \cup {PyNaN}
             \cup WideNumbers
LonInputs == NumbersOf(LonMagnitudes) \cup TextsOf(LonMagnitudes, LonSuffixes)
             \cup {Text(cs) : cs \in OddTexts \cup WideTexts} \cup {PyNaN}
             \cup WideNumbers

ParseInputs == LatInputs \X LonInputs

-----------------------------------------------------------------------------
(* The game has not been started while a coordinate function is applied *)

GameIdle ==
    /\ pc = "idle"
    /\ number_of_rounds = 0
    /\ player_locations = <<>>
    /\ points_list = <<>>
    /\ player_num = 0
    /\ round_num = 0
    /\ page_data = <<>>
    /\ extracts = <<>>
    /\ network = <<>>
    /\ rounds_played = <<>>
    /\ question = 0
    /\ user_input = ""
    /\ round_result = "none"
    /\ round_points = 0
    /\ outcome = [kind |-> "none", players |-> {}, max_points |-> 0]

NotCalled == PyNone

InitParse ==
    /\ GameIdle
    /\ op = "none"
    /\ args \in {<<pos>> : pos \in ParseInputs}
    /\ ret = NotCalled

Convert ==
    /\ op = "none"
    /\ Len(args) = 1
    /\ op' = "convert_lat_lon_to_float"
    /\ ret' = convert_lat_lon_to_float(args[1])
    /\ UNCHANGED <<args, gameVars>>

NextParse == Convert

SpecParse == InitParse /\ [][NextParse]_vars

-----------------------------------------------------------------------------
(* Properties of convert_lat_lon_to_float, under SpecParse *)

Converted == op = "convert_lat_lon_to_float"

\* an unsigned numeral: a text that starts with a digit or the point and
\* that float() reads as a finite number
IsNumeral(cs) ==
    /\ Len(cs) >= 1
    /\ IsDigit(ToAscii(cs[1])) \/ cs[1] = "."
    /\ float(cs).t = "float"

\* an unsigned numeral followed by one of the two letters of its axis
HemisphereText(x, letters) ==
    /\ x.t = "str"
    /\ Len(x.s) >= 2
    /\ Last(x.s) \in letters
    /\ IsNumeral(Front(x.s))

\* a plain number: a Python int or float (not nan), or a signed numeral
PlainNumber(x) ==
    \/ x.t \in {"int", "float"}
    \/ x.t = "str" /\ Len(x.s) >= 1 /\ float(x.s).t = "float" /\ x.s[1] # "+"

\* the number a numeral denotes: the int 10 for "10", the float 10.0 for
\* "10.0" and for "1e1"
NumberOf(cs, negative) ==
    IF AllDigits(cs)
    THEN PyInt(IF negative THEN -DigitsVal(cs) ELSE DigitsVal(cs))
    ELSE IF negative THEN Negated(float(cs)) ELSE float(cs)

\* == of two components: 0.0 and -0.0 are equal
SameValue(a, b) == a = b \/ FloatEq(a, b)
SamePair(p, q) == SameValue(p[1], q[1]) /\ SameValue(p[2], q[2])

\* the signed number a hemisphere-suffixed component stands for
SignedNumeral(x, minusLetter, plusLetter) ==
    IF HemisphereText(x, {minusLetter, plusLetter})
    THEN NumberOf(Front(x.s), Last(x.s) = minusLetter)
    ELSE x

SuffixedInput(pos) ==
    /\ HemisphereText(pos[1], {"N", "S"}) \/ PlainNumber(pos[1])
    /\ HemisphereText(pos[2], {"E", "W"}) \/ PlainNumber(pos[2])
    /\ HemisphereText(pos[1], {"N", "S"}) \/ HemisphereText(pos[2], {"E", "W"})

\* C1: an input written with hemisphere suffixes converts to the same pair
\* as the signed numbers it stands for: xS as -x, xN as x, xW as -x, xE as x.
C1_SuffixAsSigned ==
    (Converted /\ SuffixedInput(args[1])) =>
        Value({ SamePair(ret, signed)
                : signed \in {convert_lat_lon_to_float(
                                  <<SignedNumeral(args[1][1], "S", "N"),
                                    SignedNumeral(args[1][2], "W", "E")>>)} })

\* ("10S", "10E") has been converted, to (-10.0, 10.0)
C1_Witness ==
    /\ Converted
    /\ args[1] = <<Text(<<"1", "0", "S">>), Text(<<"1", "0", "E">>)>>
    /\ ret = <<PyFloat(-100), PyFloat(100)>>

\* convert_lat_lon_to_float came back with a pair: it raised nothing
ReturnedPair == ConvertRaises(args[1]) = "none"

InRange(p) ==
    /\ p[1].t = "float"
    /\ ~FloatLt(p[1], PyFloat(-900)) /\ ~FloatGt(p[1], PyFloat(900))
    /\ p[2].t = "float"
    /\ ~FloatLt(p[2], PyFloat(-1800)) /\ ~FloatGt(p[2], PyFloat(1800))

\* the magnitude of a component that denotes a number, sign and suffix aside
MagnitudeOver(x, limit, letters) ==
    /\ HemisphereText(x, letters) \/ PlainNumber(x)
    /\ Value({ Value({ FloatGt(number, PyFloat(limit)) \/ FloatLt(number, PyFloat(-limit))
                       : number \in {IF n.t = "int" THEN PyFloat(10 * n.v) ELSE n} })
               : n \in { IF HemisphereText(x, letters) THEN NumberOf(Front(x.s), FALSE)
                         ELSE IF x.t = "str" THEN float(x.s) ELSE x } })

\* C2: the result is (None, None) or a pair of numbers with latitude in
\* [-90, 90] and longitude in [-180, 180], and a magnitude over 90 or over
\* 180 gives (None, None) whatever the sign or suffix.
C2_InRangeOrInvalid ==
    Converted =>
        /\ ReturnedPair
        /\ ret = InvalidPos \/ InRange(ret)
        /\ (\/ MagnitudeOver(args[1][1], 900, {"N", "S"})
            \/ MagnitudeOver(args[1][2], 1800, {"E", "W"})) => ret = InvalidPos

\* never exactly one component None
C2_NoPartialNone ==
    (Converted /\ ReturnedPair) => ((ret[1] = PyNone) <=> (ret[2] = PyNone))

\* a component that has both a leading minus sign and a letter of its axis
MinusWithLetter(x, letters) ==
    /\ x.t = "str"
    /\ Len(x.s) >= 2
    /\ x.s[1] = "-"
    /\ Last(x.s) \in letters

\* C3: a leading minus sign combined with a hemisphere letter (N or S on the
\* latitude, E or W on the longitude) gives (None, None).
C3_MinusWithLetterInvalid ==
    (Converted /\ (\/ MinusWithLetter(args[1][1], {"N", "S"})
                   \/ MinusWithLetter(args[1][2], {"E", "W"})))
        => (ReturnedPair /\ ret = InvalidPos)

\* the part of C3 the code keeps: a minus sign with S or with W is rejected
\* whenever a pair comes back
C3_MinusWithSouthWestInvalid ==
    (Converted /\ ReturnedPair /\ (\/ MinusWithLetter(args[1][1], {"S"})
                                   \/ MinusWithLetter(args[1][2], {"W"})))
        => ret = InvalidPos

-----------------------------------------------------------------------------
(* which_is_north and which_is_east applied to two positions *)

ComparePositions ==
    { <<PyInt(10), PyInt(10)>>, <<PyInt(-10), PyInt(10)>>, <<PyInt(80), PyInt(10)>>,
      <<PyInt(-90), PyInt(10)>>, <<PyInt(180), PyInt(10)>>, <<PyInt(0), PyInt(10)>>,
      <<Text(<<"1", "S">>), PyInt(10)>>, <<PyInt(181), PyInt(10)>>,
      <<PyInt(-10), PyInt(100)>>, <<PyInt(18), Text(<<"1", "0", "E">>)>>,
      <<PyInt(0), Text(<<"1", "0", "W">>)>>, <<PyInt(18), PyInt(-10)>>,
      <<PyInt(0), PyInt(-12)>>, <<PyInt(18), Text(<<"1", "0", "W">>)>>,
      <<PyInt(0), Text(<<"1", "2", "W">>)>>, <<PyInt(0), PyInt(179)>>,
      <<PyInt(0), PyInt(-179)>>, <<PyInt(10), PyInt(181)>>,
      <<PyFloat(105), PyInt(10)>>, <<Text(<<"-", "1", "0", "N">>), PyInt(10)>>,
      <<Text(<<"n", "a", "n">>), PyInt(0)>>, <<PyInt(0), PyNaN>>,
      <<Text(<<"9", "0", ".">> \o Zeros(16) \o <<"1">>), PyInt(0)>>,
      <<PyInt(90), PyInt(0)>>, <<PyInt(0), PyInt(0)>>,
      <<PyInt(0), Text(<<"1", "8", "0", ".">> \o Zeros(16) \o <<"1">>)>> }

InitCompare ==
    /\ GameIdle
    /\ op = "none"
    /\ args \in {<<pos1, pos2>> : pos1 \in ComparePositions, pos2 \in ComparePositions}
    /\ ret = NotCalled

North ==
    /\ op = "none"
    /\ Len(args) = 2
    /\ op' = "which_is_north"
    /\ ret' = which_is_north(args[1], args[2])
    /\ UNCHANGED <<args, gameVars>>

East ==
    /\ op = "none"
    /\ Len(args) = 2
    /\ op' = "which_is_east"
    /\ ret' = which_is_east(args[1], args[2])
    /\ UNCHANGED <<args, gameVars>>

NextCompare == North \/ East

SpecCompare == InitCompare /\ [][NextCompare]_vars

Compared == op \in {"which_is_north", "which_is_east"}

\* the component the function compares: 1 the latitude, 2 the longitude
Axis == IF op = "which_is_north" THEN 1 ELSE 2

FailsConvert(pos) == convert_lat_lon_to_float(pos) = InvalidPos

\* what C4 asks of the value returned for two converted positions
LinearlyCompared(p1, p2) ==
    /\ (p1 = InvalidPos \/ p2 = InvalidPos) => ret = PyNone
    /\ ~(p1 = InvalidPos \/ p2 = InvalidPos) =>
          /\ ret \in {PyInt(0), PyInt(1), PyInt(2)}
          /\ ret = PyInt(0) <=> FloatEq(p1[Axis], p2[Axis])
          /\ ret = PyInt(1) <=> FloatGt(p1[Axis], p2[Axis])
    /\ (op = "which_is_east" /\ args = <<(<<PyInt(0), PyInt(179)>>),
                                       (<<PyInt(0), PyInt(-179)>>)>>)
          => ret = PyInt(1)
    /\ (op = "which_is_north" /\ args = <<(<<PyInt(10), PyInt(181)>>),
                                        (<<PyInt(0), PyInt(10)>>)>>)
          => ret = PyNone

Swapped(r) == IF r = PyInt(1) THEN PyInt(2) ELSE IF r = PyInt(2) THEN PyInt(1) ELSE r

Again(pos1, pos2) == IF op = "which_is_north" THEN which_is_north(pos1, pos2)
                     ELSE which_is_east(pos1, pos2)

\* C5: swapping the two positions turns 1 into 2 and 2 into 1, and a tie
\* stays a tie.
C5_SwapSymmetric ==
    Compared =>
        LET back == Again(args[2], args[1])
        IN  /\ ret = PyInt(1) => back = PyInt(2)
            /\ ret = PyInt(2) => back = PyInt(1)
            /\ ret = PyInt(0) <=> back = PyInt(0)

-----------------------------------------------------------------------------
(* compare_distance and distance_pos1_pos2 applied to places of the grid,  *)
(* written as ints, floats or hemisphere texts, and to invalid positions   *)

DistancePositions ==
    { <<PyInt(0), PyInt(0)>>, <<PyInt(10), PyInt(10)>>, <<PyInt(60), PyInt(-60)>>,
      <<PyInt(60), PyInt(60)>>, <<PyInt(60), PyInt(20)>>,
      <<Text(<<"6", "0", "N">>), Text(<<"6", "0", "W">>)>>,
      <<PyFloat(600), PyFloat(200)>>,
      <<PyInt(181), PyInt(10)>>,
      <<Text(<<"1", "0", ".", "0", "N">>), Text(<<"-", "1", "0", ".", "0", "W">>)>> }

InitDistance ==
    /\ GameIdle
    /\ op = "none"
    /\ args \in {<<ref, loc1, loc2>> : ref \in DistancePositions,
                                       loc1 \in DistancePositions,
                                       loc2 \in DistancePositions}
    /\ ret = NotCalled

CompareDistance ==
    /\ op = "none"
    /\ Len(args) = 3
    /\ op' = "compare_distance"
    /\ ret' = compare_distance(args[1], args[2], args[3])
    /\ UNCHANGED <<args, gameVars>>

Distance ==
    /\ op = "none"
    /\ Len(args) = 3
    /\ op' = "distance_pos1_pos2"
    /\ ret' = distance_pos1_pos2(args[2], args[3])
    /\ UNCHANGED <<args, gameVars>>

NextDistance == CompareDistance \/ Distance

SpecDistance == InitDistance /\ [][NextDistance]_vars

ValidPos(pos) == InRange(convert_lat_lon_to_float(pos))

\* C6: for a valid reference and two valid locations, verdict 1 with both
\* distances when the first is strictly closer, verdict 2 with both distances
\* when the second is, the tie value 0 when the distances are equal; a tie
\* when the two locations are the same place, verdict 1 when the first is the
\* reference itself and the second is elsewhere.
C6_CloserOfTwo ==
    (op = "compare_distance" /\ \A i \in 1..3 : ValidPos(args[i])) =>
        LET here == convert_lat_lon_to_float(args[1])
            place1 == convert_lat_lon_to_float(args[2])
            place2 == convert_lat_lon_to_float(args[3])
            d1 == geodesic(here, place1)
            d2 == geodesic(here, place2)
        IN  /\ d1 < d2 => ret = Verdict(1, d1, d2)
            /\ d2 < d1 => ret = Verdict(2, d1, d2)
            /\ d1 = d2 => ret = TieValue
            /\ place1 = place2 => ret = TieValue
            /\ (place1 = here /\ place2 # here)
                   => (ret.t = "tuple" /\ ret.closer = 1 /\ ret.distance1 = 0)

\* from (60, 20), (60, 60) has been found closer than (60, -60)
C6_Witness ==
    /\ op = "compare_distance"
    /\ args = <<(<<PyInt(60), PyInt(20)>>), (<<PyInt(60), PyInt(-60)>>),
                (<<PyInt(60), PyInt(60)>>)>>
    /\ ret = Verdict(2, 4184366, 2197750)

\* the positions the function applied was given
Given == IF op = "compare_distance" THEN {args[1], args[2], args[3]}
         ELSE {args[2], args[3]}

\* C7: the distance operations return None, and no distance, when one of
\* their positions is unparsable or out of range.
C7_InvalidGivesNone ==
    (op \in {"compare_distance", "distance_pos1_pos2"}
        /\ \E pos \in Given : FailsConvert(pos))
        => ret.t = "None"

-----------------------------------------------------------------------------
(* main.py: the game *)

MaxPlayers == 3
MaxRounds == 2

\* what "Enter the number of rounds" and "Enter the number of players" can be
\* answered with: get_number_of returns int() of the line, whatever its sign
RoundNumbers == -1..MaxRounds
PlayerNumbers == -1..MaxPlayers

\* the iterations of "for ... in range(n)": none when n is negative
RangeLen(n) == IF n < 0 THEN 0 ELSE n

\* how geolocator.geocode(address) can go: a location ("found"), None, on
\* which the location is asked again ("none"), or an exception of geopy,
\* GeocoderTimedOut, GeocoderUnavailable or another, that nothing catches
\* ("failed")
GeocodeResults == {"found", "none", "failed"}

\* the point a player says they are at (get_current_location, from Nominatim)
PlayerPlaces == {<<PyFloat(0), PyFloat(0)>>, <<PyFloat(600), PyFloat(200)>>}

\* the geotagged articles get_random_page_with_coordinates2 can come back with
Articles == { [page_id |-> 1, lat |-> PyFloat(100), lon |-> PyFloat(100)],
              [page_id |-> 2, lat |-> PyFloat(600), lon |-> PyFloat(-600)],
              [page_id |-> 3, lat |-> PyFloat(600), lon |-> PyFloat(600)] }

\* lines typed at the prompt of get_user_input
InputLines == {"1", "2", "q"}

NoOutcome == [kind |-> "none", players |-> {}, max_points |-> 0]

PyBool(b) == IF b THEN "True" ELSE "False"

\* int(user_input) for the two accepted lines
IntOf(line) == IF line = "1" THEN 1 ELSE 2

PosOf(article) == <<article.lat, article.lon>>

ask_question_about_north(player_answer, player_location, pages) ==
    PyBool(PyInt(player_answer) = which_is_north(PosOf(pages[1]), PosOf(pages[2])))

ask_question_about_east(player_answer, player_location, pages) ==
    PyBool(PyInt(player_answer) = which_is_east(PosOf(pages[1]), PosOf(pages[2])))

\* a distance question that rewards naming the closer place
ask_question_about_distance_Closer(player_answer, player_location, pages) ==
    LET r == compare_distance(player_location, PosOf(pages[1]), PosOf(pages[2]))
    IN  IF r.t = "int" THEN "TypeError"
        ELSE PyBool(player_answer = r.closer)

\* "is_closer, distance_1_km, distance_2_km = compare_distance(...)" cannot
\* unpack the int 0 of a tie: TypeError
ask_question_about_distance(player_answer, player_location, pages) ==
    LET r == compare_distance(player_location, PosOf(pages[1]), PosOf(pages[2]))
    IN  IF r.t = "int" THEN "TypeError"
        ELSE PyBool(player_answer # r.closer)

\* the match statement of play_one_round
AskQuestion(kind, player_answer, player_location, pages) ==
    CASE kind = 1 -> ask_question_about_north(player_answer, player_location, pages)
      [] kind = 2 -> ask_question_about_east(player_answer, player_location, pages)
      [] kind = 3 -> ask_question_about_distance(player_answer, player_location, pages)

\* the two articles of a round
ArticlePairs == {<<a, b>> : a \in Articles, b \in Articles}

\* what the question of a round comes to, for each question, answer, place
\* of the player and pair of articles of the game
RoundResults ==
    [kind \in 1..3, player_answer \in 1..2, player_location \in PlayerPlaces,
     pages \in ArticlePairs |->
        AskQuestion(kind, player_answer, player_location, pages)]

\* points for every round, right or wrong
PointsFor_Always(result) == 10

\* round_points of play_one_round
PointsFor(result) == IF result = "True" THEN 10 ELSE 0

Max(S) == CHOOSE m \in S : \A x \in S : x <= m

\* how a geosearch request can go: answered with a page ("ok"), answered
\* with no page, as an API error body is read ("empty"), or a Timeout,
\* ConnectionError, HTTPError or other RequestException ("failed")
LookupResults == {"ok", "empty", "failed"}

\* how the request for a summary can go: answered with the extract ("ok"),
\* answered with a body that has no query.pages, as the JSON of an HTTP 429
\* or 500 or an API error has ("error_body"), answered with a page that has
\* no extract ("no_extract"), or an exception of requests ("failed")
ExtractResults == {"ok", "error_body", "no_extract", "failed"}

\* great_success of access_wikimedia_api: the exceptions of requests are
\* caught and turned into (False, placeholder message); whatever is answered
\* is passed on as (True, data)
access_wikimedia_api(net) == net # "failed"

\* what a call of get_extract(page_id, max_sentences=2) raised, if it did
Exceptions == {"IndexError", "AttributeError"}

\* get_extract: "if not great_success: return data", the placeholder message;
\* list(...keys())[0] raises IndexError when there are no pages, and
\* shorten_text(2, None) raises AttributeError when there is no extract
get_extract(net) ==
    IF ~access_wikimedia_api(net) THEN "placeholder"
    ELSE IF net = "error_body" THEN "IndexError"
    ELSE IF net = "no_extract" THEN "AttributeError"
    ELSE "text"

\* turns that go round the players before the next round starts
NextIteration_RoundRobin(player, round, rounds, players) ==
    IF player = players THEN <<1, round + 1>> ELSE <<player + 1, round>>

\* the nested loops of play_the_game, "for player_num, player in
\* enumerate(player_names): for _ in range(number_of_rounds)": the indices
\* <<player_num, round_num>> of the iteration after this one
NextIteration(player, round, rounds, players) ==
    IF round + 1 = rounds THEN <<player + 1, 0>> ELSE <<player, round + 1>>

\* an announcement that names the first player with the highest score only
Announce_First(points) ==
    IF Len(points) = 0
    THEN [kind |-> "ValueError", players |-> {}, max_points |-> 0]
    ELSE LET max_points == Max({points[i] : i \in 1..Len(points)})
             first == CHOOSE i \in 1..Len(points) :
                         /\ points[i] = max_points
                         /\ \A j \in 1..(i - 1) : points[j] # max_points
         IN  [kind |-> "winner", players |-> {first}, max_points |-> max_points]

\* the end of play_the_game: max() of no score raises ValueError
Announce(points) ==
    IF Len(points) = 0
    THEN [kind |-> "ValueError", players |-> {}, max_points |-> 0]
    ELSE LET max_points == Max({points[i] : i \in 1..Len(points)})
             winning_players == {i \in 1..Len(points) : points[i] = max_points}
         IN  [kind |-> IF Cardinality(winning_players) = 1 THEN "winner" ELSE "draw",
              players |-> winning_players,
              max_points |-> max_points]

InitGame ==
    /\ op = "none"
    /\ args = <<>>
    /\ ret = NotCalled
    /\ pc = "start"
    /\ number_of_rounds = 0
    /\ player_locations = <<>>
    /\ points_list = <<>>
    /\ player_num = 0
    /\ round_num = 0
    /\ page_data = <<>>
    /\ extracts = <<>>
    /\ network = <<>>
    /\ rounds_played = <<>>
    /\ question = 0
    /\ user_input = ""
    /\ round_result = "none"
    /\ round_points = 0
    /\ outcome = NoOutcome

\* main: the number of rounds and of players are read, then the location of
\* each player (asked again when the geocoder finds none; an exception of the
\* geocoder ends the program with the locations read so far), and
\* play_the_game starts: with no player "max(points_list)" raises ValueError,
\* with players and no round to play the scores, all 0, are announced at once
Setup ==
    /\ pc = "start"
    /\ \E rounds \in RoundNumbers, players \in PlayerNumbers,
          geocode \in GeocodeResults :
       \E n \in {RangeLen(players)} :
         IF n >= 1 /\ geocode = "none"
         THEN UNCHANGED <<pc, number_of_rounds, player_locations, points_list,
                          rounds_played, player_num, outcome>>
         ELSE IF n >= 1 /\ geocode = "failed"
         THEN \E asked \in 1..n :
              \E places \in [1..(asked - 1) -> PlayerPlaces] :
                 /\ number_of_rounds' = rounds
                 /\ player_locations' = places
                 /\ points_list' = <<>>
                 /\ rounds_played' = <<>>
                 /\ player_num' = 0
                 /\ pc' = "crashed"
                 /\ outcome' = [kind |-> "GeocoderServiceError", players |-> {},
                                max_points |-> 0]
         ELSE \E places \in [1..n -> PlayerPlaces] :
                 /\ number_of_rounds' = rounds
                 /\ player_locations' = places
                 /\ points_list' = [i \in 1..n |-> 0]
                 /\ rounds_played' = [i \in 1..n |-> 0]
                 /\ IF n = 0
                    THEN /\ pc' = "crashed"
                         /\ player_num' = 0
                         /\ outcome' = Announce(<<>>)
                    ELSE IF RangeLen(rounds) = 0
                    THEN /\ pc' = "done"
                         /\ player_num' = n + 1
                         /\ outcome' = Announce([i \in 1..n |-> 0])
                    ELSE /\ pc' = "fetch"
                         /\ player_num' = 1
                         /\ outcome' = NoOutcome
    /\ round_num' = 0
    /\ UNCHANGED <<page_data, extracts, network, question, user_input,
                   round_result, round_points, callVars>>

\* the traceback of an exception nothing catches: main() is left, the
\* articles and the question of the round are gone with play_one_round
Traceback(exc) ==
    /\ pc' = "crashed"
    /\ outcome' = [kind |-> exc, players |-> {}, max_points |-> 0]
    /\ page_data' = <<>>
    /\ question' = 0

\* play_one_round up to the prompt: the two articles are looked up (a
\* request that finds no page is made again, the process exits when a request
\* cannot reach the API), the question is drawn, and the two summaries are
\* fetched, the first and then the second (a placeholder when the API cannot
\* be reached, an exception that nothing catches when the answer has no
\* page or no extract)
FetchPages ==
    /\ pc = "fetch"
    /\ \E lookup \in LookupResults :
         IF lookup = "empty"
         THEN UNCHANGED <<pc, network, page_data, extracts, question, outcome,
                          user_input, round_result, round_points>>
         ELSE /\ user_input' = ""
              /\ round_result' = "none"
              /\ round_points' = 0
              /\ IF ~access_wikimedia_api(lookup)
                 THEN /\ pc' = "exited"
                      /\ outcome' = [kind |-> "exit", players |-> {},
                                     max_points |-> 0]
                      /\ network' = <<lookup>>
                      /\ UNCHANGED <<page_data, extracts, question>>
                 ELSE \E first \in ExtractResults :
                      IF get_extract(first) \in Exceptions
                      THEN /\ Traceback(get_extract(first))
                           /\ network' = <<lookup, first>>
                           /\ extracts' = <<>>
                      ELSE \E second \in ExtractResults :
                           /\ network' = <<lookup, first, second>>
                           /\ IF get_extract(second) \in Exceptions
                              THEN /\ Traceback(get_extract(second))
                                   /\ extracts' = <<get_extract(first)>>
                              ELSE /\ pc' = "prompt"
                                   /\ page_data' \in ArticlePairs
                                   /\ question' \in 1..3
                                   /\ extracts' = <<get_extract(first),
                                                    get_extract(second)>>
                                   /\ UNCHANGED outcome
    /\ UNCHANGED <<number_of_rounds, player_locations, points_list, player_num,
                   round_num, rounds_played, callVars>>

\* get_user_input: a line other than "1" or "2" is refused and asked again
InvalidInput ==
    /\ pc = "prompt"
    /\ \E line \in InputLines \ {"1", "2"} : user_input' = line
    /\ UNCHANGED <<pc, number_of_rounds, player_locations, points_list, player_num,
                   round_num, page_data, extracts, network, question,
                   round_result, round_points, outcome, rounds_played,
                   callVars>>

\* "1" or "2" is typed: the summaries have been shown, the question is
\* settled, play_one_round returns the points, play_the_game adds them and
\* goes on to the next round, the next player or the announcement
Answer ==
    /\ pc = "prompt"
    /\ \E line \in {"1", "2"} :
       \E result \in {RoundResults[question, IntOf(line),
                                   player_locations[player_num], page_data]} :
       \E points \in {PointsFor(result)} :
       \E total \in {[points_list EXCEPT ![player_num] = @ + points]} :
       \E last_round \in {round_num + 1 = number_of_rounds} :
       \E last_player \in {player_num = Len(points_list)} :
       \E next \in {NextIteration(player_num, round_num, number_of_rounds,
                                  Len(points_list))} :
             /\ user_input' = line
             /\ extracts' = <<>>
             /\ network' = <<>>
             /\ IF result = "TypeError"
                THEN /\ pc' = "crashed"
                     /\ outcome' = [kind |-> "TypeError", players |-> {},
                                    max_points |-> 0]
                     /\ UNCHANGED <<points_list, player_num, round_num,
                                    round_result, round_points, rounds_played>>
                ELSE /\ round_result' = result
                     /\ round_points' = points
                     /\ points_list' = total
                     /\ rounds_played' = [rounds_played EXCEPT ![player_num] = @ + 1]
                     /\ player_num' = next[1]
                     /\ round_num' = next[2]
                     /\ pc' = IF last_round /\ last_player THEN "done" ELSE "fetch"
                     /\ outcome' = IF last_round /\ last_player THEN Announce(total)
                                   ELSE NoOutcome
    /\ UNCHANGED <<number_of_rounds, player_locations, page_data, question,
                   callVars>>

Next == Setup \/ FetchPages \/ InvalidInput \/ Answer

Spec == InitGame /\ [][Next]_vars

-----------------------------------------------------------------------------
(* Properties of the game, under Spec *)

\* a step in which play_one_round ran to its end for the player whose turn it is
RoundPlayed == pc = "prompt" /\ round_result' # "none"

\* C8: every score starts at 0 and never decreases; a round played adds
\* exactly 10 to the score of the player whose turn it is when the answer is
\* correct and exactly 0 otherwise, and changes no other score.
C8_ScoreSteps ==
    [][/\ pc = "start" => \A i \in 1..Len(points_list') : points_list'[i] = 0
       /\ pc # "start" =>
            /\ Len(points_list') = Len(points_list)
            /\ \A i \in 1..Len(points_list) :
                  /\ points_list'[i] >= points_list[i]
                  /\ i # player_num => points_list'[i] = points_list[i]
            /\ RoundPlayed =>
                  points_list'[player_num] - points_list[player_num]
                      = (IF round_result' = "True" THEN 10 ELSE 0)
            /\ ~RoundPlayed => points_list' = points_list]_vars

\* the second of two players has just won 10 points, the first has 20
C8_Witness ==
    /\ Len(points_list) = 2
    /\ points_list[1] = 20
    /\ points_list[2] = 10
    /\ round_result = "True"
    /\ round_points = 10

\* a step that settles a distance question with the answer typed
DistanceRoundPlayed == RoundPlayed /\ question = 3

\* what compare_distance makes of each place of a player and pair of articles
Verdicts ==
    [player_location \in PlayerPlaces, pages \in ArticlePairs |->
        compare_distance(player_location, PosOf(pages[1]), PosOf(pages[2]))]

VerdictNow == Verdicts[player_locations[player_num], page_data]

\* C9 as claimed: a distance round is won exactly when the option chosen is
\* the verdict of compare_distance, the nearer location.
C9_CorrectIsCloser ==
    [][DistanceRoundPlayed =>
         (round_points' = 10 <=> IntOf(user_input') = VerdictNow.closer)]_vars

\* C9 as amended: a distance round is won exactly when the option chosen is
\* the other one than the verdict of compare_distance, the farther location.
C9_CorrectIsFarther ==
    [][DistanceRoundPlayed =>
         /\ VerdictNow.closer \in {1, 2}
         /\ round_points' = 10 <=> IntOf(user_input') # VerdictNow.closer
         /\ points_list'[player_num] = points_list[player_num] + round_points']_vars

\* a player at (0, 0) asked about (10, 10) and (60, -60) has answered 2, the
\* farther one, and won 10 points
C9_Witness ==
    /\ question = 3
    /\ page_data # <<>>
    /\ <<page_data[1].page_id, page_data[2].page_id>> = <<1, 2>>
    /\ player_locations[1] = <<PyFloat(0), PyFloat(0)>>
    /\ points_list = <<10>>
    /\ user_input = "2"
    /\ round_result = "True"
    /\ round_points = 10

\* C10: in a distance round whose two locations are equally far from the
\* player, whichever of 1 and 2 is answered the round is completed with 0
\* points and the game goes on.
C10_TieRoundCompletes ==
    [][(pc = "prompt" /\ question = 3 /\ VerdictNow = TieValue
            /\ user_input' \in {"1", "2"})
         => /\ round_result' = "False"
            /\ round_points' = 0
            /\ pc' \in {"fetch", "done"}]_vars

\* play_the_game came to its announcement: the two loops are over, every
\* round of every player has been played
GameOver == pc = "done"

\* the rounds "for _ in range(number_of_rounds)" gives each player
RoundsToPlay == RangeLen(number_of_rounds)

\* C11: when all rounds of all players are over, the players announced are
\* exactly those whose total is the highest: nobody announced has less than
\* anybody, everybody left out has less than somebody; one such player is
\* announced as the winner, two or more as a draw.
C11_WinnersAreMaxima ==
    GameOver =>
        /\ Len(points_list) >= 1
        /\ \A i \in 1..Len(points_list) : rounds_played[i] = RoundsToPlay
        /\ outcome.players \subseteq 1..Len(points_list)
        /\ \A i \in outcome.players :
              /\ points_list[i] = outcome.max_points
              /\ \A j \in 1..Len(points_list) : points_list[j] <= points_list[i]
        /\ \A i \in (1..Len(points_list)) \ outcome.players :
              \E j \in 1..Len(points_list) : points_list[j] > points_list[i]
        /\ Cardinality(outcome.players) = 1 <=> outcome.kind = "winner"
        /\ Cardinality(outcome.players) >= 2 <=> outcome.kind = "draw"
        /\ outcome.kind \in {"winner", "draw"}

\* the first and the third of three players finish level on 10 points, the
\* second has none: a draw names the first and the third and leaves the
\* second out
C11_Witness ==
    /\ GameOver
    /\ number_of_rounds = 2
    /\ rounds_played = <<2, 2, 2>>
    /\ points_list = <<10, 0, 10>>
    /\ outcome.kind = "draw"
    /\ outcome.players = {1, 3}
    /\ outcome.max_points = 10

\* one of two players finishes ahead and is the one winner
C11_WitnessWinner ==
    /\ GameOver
    /\ points_list = <<10, 20>>
    /\ outcome.kind = "winner"
    /\ outcome.players = {2}

\* -1 is entered as the number of rounds: no round is played and the two
\* players, on 0 points each, are announced level
C11_WitnessNoRound ==
    /\ GameOver
    /\ number_of_rounds = -1
    /\ rounds_played = <<0, 0>>
    /\ points_list = <<0, 0>>
    /\ outcome.kind = "draw"
    /\ outcome.players = {1, 2}

\* an API call of the round in progress could not reach Wikipedia, or was
\* answered with an HTTP error
NetworkFailed == \E i \in 1..Len(network) : network[i] \in {"failed", "error_body"}

\* C12: a network failure in an API call of a round, the article lookup or a
\* summary fetch, becomes a placeholder: the round goes on to its prompt with
\* the placeholder in place of the summary, nothing is raised and the process
\* does not exit.
C12_FailureBecomesPlaceholder ==
    NetworkFailed =>
        /\ pc = "prompt"
        /\ outcome.kind = "none"
        /\ \A i \in 1..2 :
              network[i + 1] \in {"failed", "error_body"} => extracts[i] = "placeholder"

\* C13: at the prompt "q" ends the game, and "1" or "2" is taken as the
\* choice, so that the prompt is left.
C13_QuitOrChoose ==
    [][pc = "prompt" =>
          /\ user_input' = "q" => pc' \notin {"prompt", "fetch"}
          /\ user_input' \in {"1", "2"} => pc' # "prompt"]_vars

\* the case of C14: several players and several rounds
Several == Len(rounds_played) >= 2 /\ number_of_rounds >= 2

\* "each player plays exactly number_of_rounds rounds in total": nobody plays
\* more, and at the announcement everybody has played as many
ExactlyTheRounds ==
    /\ \A i \in 1..Len(rounds_played) : rounds_played[i] <= number_of_rounds
    /\ pc = "done" =>
          \A i \in 1..Len(rounds_played) : rounds_played[i] = number_of_rounds

\* C14 as stated: with several players and several rounds the turns
\* alternate, nobody is a round ahead of anybody by more than the round being
\* played, and each player plays exactly number_of_rounds rounds in total.
C14_RoundRobin ==
    Several =>
        /\ \A i \in 1..Len(rounds_played) : \A j \in 1..Len(rounds_played) :
              rounds_played[i] <= rounds_played[j] + 1
        /\ ExactlyTheRounds

\* C14: with several players and several rounds the turns go player by
\* player: a player plays, or is up to play, only when every player listed
\* earlier has played all number_of_rounds rounds, also in a game that an
\* exception or an exit cuts short; and each player plays exactly
\* number_of_rounds rounds in total.
C14_PlayerMajor ==
    Several =>
        /\ \A j \in 1..Len(rounds_played) : \A i \in 1..(j - 1) :
              (rounds_played[j] > 0 \/ (player_num = j /\ pc # "done")) =>
                  rounds_played[i] = number_of_rounds
        /\ ExactlyTheRounds

\* the second player is asked their first question after the first player has
\* played both rounds
C14_Witness ==
    /\ pc = "prompt"
    /\ number_of_rounds = 2
    /\ player_num = 2
    /\ rounds_played = <<2, 0>>

\* the same with three players: the third has not played when the second is
\* through, and the game ends with two rounds played by each
C14_WitnessThree ==
    /\ pc = "done"
    /\ number_of_rounds = 2
    /\ rounds_played = <<2, 2, 2>>

=============================================================================
